---------------------------- MODULE Spec2Model ----------------------------
(***************************************************************************)
(* Model of the manifest-resolution core of the docs generator             *)
(* (pages/[[...slug]].tsx in its latest revision): the path normalizer,    *)
(* the route index, the navigation tree with its process-wide cache, and   *)
(* the two page-resolution entry points getStaticPaths / getStaticProps.   *)
(*                                                                         *)
(* A JavaScript string is a sequence of one-character strings, so that     *)
(* startsWith / endsWith / replace / split / join are computed character   *)
(* by character, as the engine computes them.                              *)
(***************************************************************************)
EXTENDS Integers, Sequences, FiniteSets, TLC

(***************************************************************************)
(* Bounds of the model.                                                    *)
(***************************************************************************)
\* Number of pieces concatenated to form an input of the path normalizer.
MaxPieces == 3
\* Number of routes (at all depths) of a manifest; some larger manifests
\* are added by hand (LargerForests).
MaxRoutes == 2

(***************************************************************************)
(* JavaScript values.                                                      *)
(***************************************************************************)
\* A position that may hold `undefined` holds a sequence of length at most
\* one: <<>> is `undefined`, <<v>> is the value v.
Undefined == <<>>
Some(v) == <<v>>
IsDefined(o) == o # <<>>
ValueOf(o) == o[1]

(***************************************************************************)
(* String primitives (ECMAScript String.prototype).                        *)
(***************************************************************************)
\* s.startsWith(p)
StartsWith(s, p) ==
  /\ Len(p) <= Len(s)
  /\ SubSeq(s, 1, Len(p)) = p

\* s.endsWith(p)
EndsWith(s, p) ==
  /\ Len(p) <= Len(s)
  /\ SubSeq(s, Len(s) - Len(p) + 1, Len(s)) = p

\* s.indexOf(p), 1-based; 0 when p does not occur in s.
IndexOf(s, p) ==
  LET hits == {i \in 1..(Len(s) - Len(p) + 1) : SubSeq(s, i, i + Len(p) - 1) = p}
  IN  IF hits = {} THEN 0 ELSE CHOOSE i \in hits : \A j \in hits : i <= j

\* s.replace(p, r) with a string pattern p: only the FIRST occurrence of p
\* is replaced.
ReplaceFirst(s, p, r) ==
  LET i == IndexOf(s, p)
  IN  IF i = 0 THEN s
      ELSE SubSeq(s, 1, i - 1) \o r \o SubSeq(s, i + Len(p), Len(s))

\* s.replace(/p/g, r) for a literal pattern p: every occurrence, scanning
\* left to right, the scan resuming after each match.
RECURSIVE ReplaceAll(_, _, _)
ReplaceAll(s, p, r) ==
  LET i == IndexOf(s, p)
  IN  IF i = 0 THEN s
      ELSE SubSeq(s, 1, i - 1) \o r
             \o ReplaceAll(SubSeq(s, i + Len(p), Len(s)), p, r)

\* s.split(sep) for a one-character separator: "" splits to [""].
RECURSIVE Split(_, _)
Split(s, sep) ==
  LET i == IndexOf(s, sep)
  IN  IF i = 0 THEN <<s>>
      ELSE <<SubSeq(s, 1, i - 1)>> \o Split(SubSeq(s, i + Len(sep), Len(s)), sep)

\* segs.join(sep)
RECURSIVE Join(_, _)
Join(segs, sep) ==
  IF segs = <<>> THEN <<>>
  ELSE IF Len(segs) = 1 THEN segs[1]
  ELSE segs[1] \o sep \o Join(Tail(segs), sep)

(***************************************************************************)
(* String literals of the source.                                          *)
(***************************************************************************)
StrIndex == <<"i", "n", "d", "e", "x">>
StrMd    == <<".", "m", "d">>
StrDotSlash == <<".", "/">>
StrSlash == <<"/">>
StrEmpty == <<>>

(***************************************************************************)
(* Path normalizer.                                                        *)
(***************************************************************************)
\* path.replace(/\/+$/, ""): the whole run of trailing slashes is removed.
RECURSIVE removeTrailingSlash(_)
removeTrailingSlash(path) ==
  IF EndsWith(path, StrSlash)
  THEN removeTrailingSlash(SubSeq(path, 1, Len(path) - 1))
  ELSE path

\* Mutant: the `g` flag dropped, only the first ".md" is removed.
removeMkdExtension_first(path) == ReplaceFirst(path, StrMd, StrEmpty)

\* path.replace(/\.md/g, "")
removeMkdExtension(path) == ReplaceAll(path, StrMd, StrEmpty)

\* if (path.endsWith("index")) path = path.replace("index", "")
removeIndexFilename(path) ==
  IF EndsWith(path, StrIndex)
  THEN ReplaceFirst(path, StrIndex, StrEmpty)
  ELSE path

\* if (urlPath.startsWith("./")) urlPath = urlPath.replace("./", "")
removeRelativePath(urlPath) ==
  IF StartsWith(urlPath, StrDotSlash)
  THEN ReplaceFirst(urlPath, StrDotSlash, StrEmpty)
  ELSE urlPath

\* if (urlPath.endsWith("/")) urlPath = removeTrailingSlash(urlPath)
removeTrailingSlashIfAny(urlPath) ==
  IF EndsWith(urlPath, StrSlash) THEN removeTrailingSlash(urlPath) ELSE urlPath

transformFilePathToUrlPath(filePath) ==
  removeTrailingSlashIfAny(
    removeIndexFilename(
      removeRelativePath(
        removeMkdExtension(filePath))))

(***************************************************************************)
(* Data model: Route, Manifest, source documents, the content folder.      *)
(***************************************************************************)
\* Source paths a manifest may name.
PathRoot     == StrIndex \o StrMd                                  \* "index.md"
PathA        == <<"a">> \o StrMd                                   \* "a.md"
PathADir     == StrDotSlash \o <<"a">> \o StrSlash \o StrIndex \o StrMd
                                                                   \* "./a/index.md"
PathAB       == <<"a", "/", "b">> \o StrMd                         \* "a/b.md"
PathIndexDir == StrIndex \o StrSlash \o StrIndex \o StrMd          \* "index/index.md"
RoutePaths   == {PathRoot, PathA, PathADir, PathAB, PathIndexDir}

\* type Route = { path: FilePath; children?: Route[] }: the routes with
\* exactly n nodes, and the route lists (forests) with exactly n nodes.
\* A route with no `children` property has children = Undefined.
RECURSIVE RoutesOfSize(_), ForestsOfSize(_)
RoutesOfSize(n) ==
  IF n = 1 THEN [path : RoutePaths, children : {Undefined}]
  ELSE {[path |-> p, children |-> Some(cs)] :
          p \in RoutePaths, cs \in ForestsOfSize(n - 1)}

ForestsOfSize(n) ==
  IF n = 0 THEN {<<>>}
  ELSE UNION {{<<r>> \o f : r \in RoutesOfSize(k), f \in ForestsOfSize(n - k)} :
                k \in 1..n}

\* Route lists in which a route carries `children: []`.
EmptyChildrenForests ==
  {<<[path |-> p, children |-> Some(<<>>)]>> : p \in RoutePaths}
    \cup {<<[path |-> PathRoot,
             children |-> Some(<<[path |-> p, children |-> Some(<<>>)]>>)]>> :
            p \in RoutePaths}

\* Route lists with two children under one route, with three levels, and
\* with routes after a nested one.
Leaf(p) == [path |-> p, children |-> Undefined]
Node(p, cs) == [path |-> p, children |-> Some(cs)]
LargerForests ==
  {<<Node(PathRoot, <<Leaf(PathA), Leaf(PathAB)>>)>>,
   <<Node(PathRoot, <<Leaf(PathAB), Leaf(PathA)>>)>>,
   <<Node(PathRoot, <<Node(PathADir, <<Leaf(PathAB)>>)>>)>>,
   <<Node(PathADir, <<Leaf(PathAB)>>), Leaf(PathRoot), Leaf(PathIndexDir)>>,
   <<Leaf(PathRoot), Node(PathADir, <<Leaf(PathAB), Leaf(PathA)>>)>>}

RouteLists ==
  UNION {ForestsOfSize(n) : n \in 0..MaxRoutes}
    \cup EmptyChildrenForests \cup LargerForests

\* type Manifest = { versions: string[]; routes: Route[] }
Versions      == <<"v2", "v1">>
NoVersions    == <<>>
ManifestOf(vs, rs) == [versions |-> vs, routes |-> rs]

\* Every route of a route list, depth-first, pre-order.
RECURSIVE AllRoutes(_)
AllRoutes(routes) ==
  IF routes = <<>> THEN <<>>
  ELSE <<routes[1]>>
         \o (IF IsDefined(routes[1].children)
             THEN AllRoutes(ValueOf(routes[1].children))
             ELSE <<>>)
         \o AllRoutes(Tail(routes))

RoutedPaths(routes) == {AllRoutes(routes)[i].path : i \in 1..Len(AllRoutes(routes))}

\* A source document of the content folder is absent, or its front-matter
\* header is well formed with a title, well formed without a title, or
\* malformed.  The document at path p has the title TitleOf(p) (when it has
\* one) and the body DocBody.
NoFile == Undefined
DocBody == <<"x", "<", "!", "-", "-", "n", "-", "-", ">", "y">>   \* "x<!--n-->y"
TitleOf(p) == <<"T">> \o p
HealthyDocs == [p \in RoutePaths |-> "title"]
Defects == {"notitle", "malformed", "absent"}
DefectiveDocs(bad, defect) == [HealthyDocs EXCEPT ![bad] = defect]

\* The content folder: manifest.json and the source documents.
ContentOf(m, docs) == [manifest |-> m, docs |-> docs]
Contents ==
  {ContentOf(Some(ManifestOf(Versions, rs)), HealthyDocs) : rs \in RouteLists}
    \cup UNION {{ContentOf(Some(ManifestOf(Versions, rs)), DefectiveDocs(bad, defect)) :
                   bad \in RoutedPaths(rs), defect \in Defects} : rs \in RouteLists}
    \cup {ContentOf(Some(ManifestOf(NoVersions, rs)), HealthyDocs) : rs \in RouteLists}
    \cup {ContentOf(NoFile, HealthyDocs)}

(***************************************************************************)
(* Exceptions: a function that may throw yields Throw or Return(v).        *)
(***************************************************************************)
Throw == [threw |-> TRUE, value |-> Undefined]
Return(v) == [threw |-> FALSE, value |-> Some(v)]
Returned(r) == ValueOf(r.value)

(***************************************************************************)
(* A plain object used as a string-keyed map: its entries in insertion     *)
(* order; assigning to an existing key keeps the key's place and replaces  *)
(* its value.  (No key of the model is an integer index or a property of   *)
(* Object.prototype.)                                                      *)
(***************************************************************************)
ObjectKeys(obj) == [i \in 1..Len(obj) |-> obj[i].key]

HasKey(obj, k) == \E i \in 1..Len(obj) : obj[i].key = k

\* obj[k]
ObjGet(obj, k) ==
  IF HasKey(obj, k)
  THEN Some((CHOOSE e \in {obj[i] : i \in 1..Len(obj)} : e.key = k).value)
  ELSE Undefined

\* obj[k] = v
ObjSet(obj, k, v) ==
  IF HasKey(obj, k)
  THEN [i \in 1..Len(obj) |-> IF obj[i].key = k THEN [key |-> k, value |-> v] ELSE obj[i]]
  ELSE Append(obj, [key |-> k, value |-> v])

(***************************************************************************)
(* Route index.                                                            *)
(***************************************************************************)
\* paths[transformFilePathToUrlPath(route.path)] = route.path
addPath(paths, route) ==
  ObjSet(paths, transformFilePathToUrlPath(route.path), route.path)

\* addPaths(routes): each route in turn, its children right after it.
RECURSIVE addPaths(_, _), addChildPaths(_, _)
addPaths(paths, routes) ==
  IF routes = <<>> THEN paths
  ELSE addPaths(addChildPaths(addPath(paths, routes[1]), routes[1]), Tail(routes))

\* Mutant: the children of a route are not visited.
addChildPaths_skip(paths, route) == paths

\* if (route.children) addPaths(route.children)
addChildPaths(paths, route) ==
  IF IsDefined(route.children)
  THEN addPaths(paths, ValueOf(route.children))
  ELSE paths

mapRoutes(m) == addPaths(<<>>, m.routes)

(***************************************************************************)
(* Reading the content folder.                                             *)
(***************************************************************************)
\* readFileSync(path.join(contentPath, filePath)): path.join throws on a
\* filePath that is not a string, readFileSync on a file that is absent.
readContentFile(c, filePath) ==
  IF ~IsDefined(filePath) THEN Throw
  ELSE IF c.docs[ValueOf(filePath)] = "absent" THEN Throw
  ELSE Return([header |-> c.docs[ValueOf(filePath)],
               title  |-> TitleOf(ValueOf(filePath)),
               body   |-> DocBody])

\* fm(text) of the front-matter package: throws on a malformed header;
\* `attributes.title` is undefined when the header names no title.
fm(file) ==
  IF file.header = "malformed" THEN Throw
  ELSE Return([attributes |-> [title |-> IF file.header = "title"
                                          THEN Some(file.title)
                                          ELSE Undefined],
               body |-> file.body])

StrCommentOpen  == <<"<", "!", "-", "-">>
StrCommentClose == <<"-", "-", ">">>

\* string.replace(/<!--[\s\S]*?-->/g, "")
RECURSIVE removeHtmlComments(_)
removeHtmlComments(string) ==
  LET i == IndexOf(string, StrCommentOpen)
      rest == SubSeq(string, i + Len(StrCommentOpen), Len(string))
      j == IndexOf(rest, StrCommentClose)
  IN  IF i = 0 \/ j = 0 THEN string
      ELSE SubSeq(string, 1, i - 1)
             \o removeHtmlComments(SubSeq(rest, j + Len(StrCommentClose), Len(rest)))

\* manifest = JSON.parse(readContentFile("manifest.json")), memoized in the
\* module variable `manifest`.  Yields the outcome and the variable after.
getManifest(c, cached) ==
  IF IsDefined(cached) THEN [out |-> Return(ValueOf(cached)), manifest |-> cached]
  ELSE IF ~IsDefined(c.manifest) THEN [out |-> Throw, manifest |-> cached]
  ELSE [out |-> Return(ValueOf(c.manifest)), manifest |-> c.manifest]

(***************************************************************************)
(* Navigation tree.                                                        *)
(***************************************************************************)
\* Mutant: the recursive call passes the item's own path as parentPath
\* (relative accumulation below the top level).
childParentPath_accumulate(path) == Some(path)

\* The parentPath argument of the recursive call getNavItem(childRoute):
\* none is passed.
childParentPath(path) == Undefined

\* `parentPath ? ... : ...`: undefined and "" are falsy.
navPath(route, parentPath) ==
  IF IsDefined(parentPath) /\ ValueOf(parentPath) # StrEmpty
  THEN ValueOf(parentPath) \o StrSlash \o transformFilePathToUrlPath(route.path)
  ELSE transformFilePathToUrlPath(route.path)

\* getNavItem(route, parentPath), statement by statement, and the loop that
\* pushes the items of a route list onto an array.  pushNavItems yields the
\* array as it stands when the loop ends or throws.
RECURSIVE getNavItem(_, _, _), navItemOfFile(_, _, _, _),
          navItemOfDocument(_, _, _, _), pushNavItems(_, _, _, _),
          pushNavItem(_, _, _, _, _)
getNavItem(c, route, parentPath) ==
  navItemOfFile(c, route, parentPath, readContentFile(c, Some(route.path)))

\* fm<FmAttributes>(...) on the file read
navItemOfFile(c, route, parentPath, file) ==
  IF file.threw THEN Throw
  ELSE navItemOfDocument(c, route, parentPath, fm(Returned(file)))

\* navItem.children = [] with the children's items pushed onto it
navItemWithChildren(title, path, kids) ==
  IF kids.threw THEN Throw
  ELSE Return([title |-> title, path |-> path, children |-> Some(kids.items)])

\* const navItem = { title: attributes.title, path }; if (route.children) ...
navItemOfDocument(c, route, parentPath, parsed) ==
  IF parsed.threw THEN Throw
  ELSE IF ~IsDefined(route.children)
  THEN Return([title    |-> Returned(parsed).attributes.title,
               path     |-> navPath(route, parentPath),
               children |-> Undefined])
  ELSE navItemWithChildren(Returned(parsed).attributes.title,
                           navPath(route, parentPath),
                           pushNavItems(c, ValueOf(route.children),
                                        childParentPath(navPath(route, parentPath)),
                                        <<>>))

pushNavItems(c, routes, parentPath, items) ==
  IF routes = <<>> THEN [threw |-> FALSE, items |-> items]
  ELSE pushNavItem(c, routes, parentPath, items, getNavItem(c, routes[1], parentPath))

pushNavItem(c, routes, parentPath, items, item) ==
  IF item.threw THEN [threw |-> TRUE, items |-> items]
  ELSE pushNavItems(c, Tail(routes), parentPath, Append(items, Returned(item)))

\* The outcome of getNavigation's loop and the module variable after it.
builtNavigation(built) ==
  [out |-> IF built.threw THEN Throw ELSE Return(built.items),
   navigation |-> Some(built.items)]

\* getNavigation(manifest), memoized in the module variable `navigation`:
\* an array, even an empty one, is truthy; `navigation = []` is assigned
\* before the loop and the items are pushed onto it one by one.  Yields the
\* outcome and the variable after.
getNavigation(c, cached, m) ==
  IF IsDefined(cached) THEN [out |-> Return(ValueOf(cached)), navigation |-> cached]
  ELSE builtNavigation(pushNavItems(c, m.routes, Undefined, <<>>))

(***************************************************************************)
(* State.                                                                  *)
(***************************************************************************)
VARIABLES
  content,     \* the content folder on disk: manifest.json and the documents
  manifest,    \* module variable `let manifest: Manifest`
  navigation,  \* module variable `let navigation: Nav`
  call,        \* the last call made and its outcome
  resolutions, \* the getStaticProps calls pending together: position, locals
  running,     \* the call the JavaScript thread is executing, if any
  stores       \* how many times each module variable has been assigned

vars == <<content, manifest, navigation, call, resolutions, running, stores>>

\* The part of the state that only calls pending together use.
pending == <<resolutions, running, stores>>
NoOne == 0
NoStores == [manifest |-> 0, navigation |-> 0]
NonePending == resolutions = <<>> /\ running = NoOne /\ stores = NoStores

NoCall == [fn |-> "none", arg |-> Undefined, threw |-> FALSE, ret |-> Undefined]
InputOf(arg) == [fn |-> "input", arg |-> Some(arg), threw |-> FALSE, ret |-> Undefined]
CallOf(fn, arg, out) == [fn |-> fn, arg |-> arg, threw |-> out.threw, ret |-> out.value]

(***************************************************************************)
(* Page resolution: the two exported entry points.                         *)
(***************************************************************************)
\* Object.keys(routes).map((urlPath) => ({ params: { slug: urlPath.split("/") } }))
staticPaths(routes) ==
  [i \in 1..Len(routes) |-> [params |-> [slug |-> Split(ObjectKeys(routes)[i], StrSlash)]]]

staticPathsOf(loaded) ==
  [out |-> IF loaded.out.threw THEN Throw
           ELSE Return([paths |-> staticPaths(mapRoutes(Returned(loaded.out))),
                        fallback |-> FALSE]),
   manifest |-> loaded.manifest]

getStaticPaths(c, cachedManifest) == staticPathsOf(getManifest(c, cachedManifest))

\* const { slug = [""] } = context.params
slugOrDefault(slug) == IF IsDefined(slug) THEN ValueOf(slug) ELSE <<StrEmpty>>

\* manifest.versions[0]
firstVersion(m) == IF Len(m.versions) >= 1 THEN Some(m.versions[1]) ELSE Undefined

\* getStaticProps(context), statement by statement; each stage yields the
\* outcome and the two module variables after the call.
\* return { props: { content, attributes, navigation, version } }
pageProps(m, parsed, nav) ==
  IF nav.out.threw
  THEN [out |-> Throw, manifest |-> Some(m), navigation |-> nav.navigation]
  ELSE [out |-> Return([props |-> [content    |-> removeHtmlComments(parsed.body),
                                   attributes |-> parsed.attributes,
                                   navigation |-> Returned(nav.out),
                                   version    |-> firstVersion(m)]]),
        manifest |-> Some(m),
        navigation |-> nav.navigation]

\* const navigation = getNavigation(manifest)
pageOfDocument(c, m, cachedNavigation, parsed) ==
  IF parsed.threw
  THEN [out |-> Throw, manifest |-> Some(m), navigation |-> cachedNavigation]
  ELSE pageProps(m, Returned(parsed), getNavigation(c, cachedNavigation, m))

\* const { body, attributes } = fm(readContentFile(filePath))
pageOfFile(c, m, cachedNavigation, file) ==
  IF file.threw
  THEN [out |-> Throw, manifest |-> Some(m), navigation |-> cachedNavigation]
  ELSE pageOfDocument(c, m, cachedNavigation, fm(Returned(file)))

\* const filePath = routes[slug.join("/")]
pageOfManifest(c, loaded, cachedNavigation, slug) ==
  IF loaded.out.threw
  THEN [out |-> Throw, manifest |-> loaded.manifest, navigation |-> cachedNavigation]
  ELSE pageOfFile(c, Returned(loaded.out), cachedNavigation,
                  readContentFile(c, ObjGet(mapRoutes(Returned(loaded.out)),
                                            Join(slug, StrSlash))))

getStaticProps(c, cachedManifest, cachedNavigation, slugParam) ==
  pageOfManifest(c, getManifest(c, cachedManifest), cachedNavigation,
                 slugOrDefault(slugParam))

(***************************************************************************)
(* Actions.                                                                *)
(***************************************************************************)
GetStaticPaths ==
  LET r == getStaticPaths(content, manifest)
  IN  /\ manifest' = r.manifest
      /\ call' = CallOf("getStaticPaths", Undefined, r.out)
      /\ UNCHANGED <<content, navigation, pending>>

GetStaticProps(slugParam) ==
  LET r == getStaticProps(content, manifest, navigation, slugParam)
  IN  /\ manifest' = r.manifest
      /\ navigation' = r.navigation
      /\ call' = CallOf("getStaticProps", slugParam, r.out)
      /\ UNCHANGED <<content, pending>>

\* A direct call getNavigation(m).
GetNavigation(m) ==
  LET r == getNavigation(content, navigation, m)
  IN  /\ navigation' = r.navigation
      /\ call' = CallOf("getNavigation", Some(m), r.out)
      /\ UNCHANGED <<content, manifest, pending>>

\* The call transformFilePathToUrlPath(filePath) on the input drawn.
Transform(filePath) ==
  /\ call = InputOf(filePath)
  /\ call' = CallOf("transformFilePathToUrlPath", Some(filePath),
                    Return(transformFilePathToUrlPath(filePath)))
  /\ UNCHANGED <<content, manifest, navigation, pending>>

(***************************************************************************)
(* Inputs.                                                                 *)
(***************************************************************************)
\* Slug parameters: none (the home page), every segment list getStaticPaths
\* emits for the manifest on disk, and one that names no page.
StrZ == <<"z">>
SlugParams(c) ==
  {Undefined, Some(<<StrZ>>)}
    \cup (IF IsDefined(c.manifest)
          THEN LET routes == mapRoutes(ValueOf(c.manifest))
               IN  {Some(staticPaths(routes)[i].params.slug) : i \in 1..Len(routes)}
          ELSE {})

\* File paths given to the normalizer: concatenations of at most MaxPieces
\* of the pieces below, and the documented examples.
Pieces == {StrIndex, StrMd, StrSlash, StrDotSlash, <<"a">>, <<"r", "e">>}
RECURSIVE PiecePaths(_)
PiecePaths(n) ==
  IF n = 0 THEN {StrEmpty}
  ELSE PiecePaths(n - 1) \cup {q \o p : q \in PiecePaths(n - 1), p \in Pieces}

StrGettingStarted ==
  <<"g", "e", "t", "t", "i", "n", "g", "-", "s", "t", "a", "r", "t", "e", "d">>
StrGuidesDeploy ==
  <<"g", "u", "i", "d", "e", "s", "/", "d", "e", "p", "l", "o", "y">>
StrAB == <<"a", "/", "b">>
ExampleGettingStarted == StrDotSlash \o StrGettingStarted \o StrSlash \o StrIndex \o StrMd
ExampleRoot           == StrDotSlash \o StrIndex \o StrMd
ExampleGuidesDeploy   == StrGuidesDeploy \o StrMd
ExampleIndexTwice     == StrAB \o StrSlash \o StrIndex \o StrMd \o StrSlash \o StrIndex \o StrMd
Examples == {ExampleGettingStarted, ExampleRoot, ExampleGuidesDeploy, ExampleIndexTwice}

FilePaths == PiecePaths(MaxPieces) \cup Examples

(***************************************************************************)
(* Specifications.                                                         *)
(***************************************************************************)
\* A build process: a content folder, cold caches, then any sequence of
\* page-resolution calls.
Init ==
  /\ content \in Contents
  /\ manifest = Undefined
  /\ navigation = Undefined
  /\ call = NoCall
  /\ NonePending

Next ==
  \/ GetStaticPaths
  \/ \E slugParam \in SlugParams(content) : GetStaticProps(slugParam)

Spec == Init /\ [][Next]_vars

\* The path normalizer applied to any file path.
InitPath ==
  /\ content = ContentOf(NoFile, HealthyDocs)
  /\ manifest = Undefined
  /\ navigation = Undefined
  /\ call \in {InputOf(filePath) : filePath \in FilePaths}
  /\ NonePending

NextPath == \E filePath \in FilePaths : Transform(filePath)

SpecPath == InitPath /\ [][NextPath]_vars

\* Direct calls of getNavigation with any manifest of a small pool, on a
\* content folder whose documents are all well formed.
CallRouteLists == ForestsOfSize(0) \cup ForestsOfSize(1) \cup LargerForests
CallManifests == {ManifestOf(Versions, rs) : rs \in CallRouteLists}

InitNav ==
  /\ content = ContentOf(NoFile, HealthyDocs)
  /\ manifest = Undefined
  /\ navigation = Undefined
  /\ call = NoCall
  /\ NonePending

NextNav == \E m \in CallManifests : GetNavigation(m)

SpecNav == InitNav /\ [][NextNav]_vars

(***************************************************************************)
(* Calls of getStaticProps pending together in one process, while the two  *)
(* module variables are still unset.  A call is followed statement by      *)
(* statement through getManifest and getNavigation.                        *)
(***************************************************************************)
\* Number of getStaticProps calls pending together.
MaxResolutions == 2
Resolutions == 1..MaxResolutions

\* A pending call: its slug parameter, its position, the index of the next
\* top-level route its getNavigation loop handles, and the `navigation`
\* prop of the page it returned.
Resolution(slugParam) ==
  [slug |-> slugParam, pc |-> "getManifest", next |-> 0, got |-> Undefined]

\* getStaticProps, getManifest and getNavigation are synchronous functions
\* (no async, no await): the engine runs a call to completion before it
\* starts another one.
mayRun(r) == running \in {NoOne, r}

at(r, pc) == mayRun(r) /\ resolutions[r].pc = pc

goto(r, pc) ==
  /\ resolutions' = [resolutions EXCEPT ![r].pc = pc]
  /\ running' = r

\* An exception leaves getStaticProps; the thread is free again.
throw(r) ==
  /\ resolutions' = [resolutions EXCEPT ![r].pc = "threw"]
  /\ running' = NoOne

\* return { props: { ..., navigation, ... } }
return(r, nav) ==
  /\ resolutions' = [resolutions EXCEPT ![r].pc = "returned", ![r].got = Some(nav)]
  /\ running' = NoOne

\* getManifest: if (manifest) return manifest
ManifestCheck(r) ==
  /\ at(r, "getManifest")
  /\ goto(r, IF IsDefined(manifest) THEN "document" ELSE "loadManifest")
  /\ UNCHANGED <<content, manifest, navigation, call, stores>>

\* getManifest: manifest = JSON.parse(readContentFile("manifest.json"))
ManifestLoad(r) ==
  /\ at(r, "loadManifest")
  /\ manifest' = getManifest(content, Undefined).manifest
  /\ IF getManifest(content, Undefined).out.threw
     THEN throw(r) /\ UNCHANGED stores
     ELSE goto(r, "document") /\ stores' = [stores EXCEPT !.manifest = @ + 1]
  /\ UNCHANGED <<content, navigation, call>>

\* fm(text) on the file read, if it was read
parsedFile(file) == IF file.threw THEN Throw ELSE fm(Returned(file))

\* fm(readContentFile(routes[slug.join("/")]))
documentOf(c, m, slugParam) ==
  parsedFile(readContentFile(c, ObjGet(mapRoutes(m),
                                       Join(slugOrDefault(slugParam), StrSlash))))

\* getStaticProps: mapRoutes, the lookup of the slug, the document read
ReadDocument(r) ==
  /\ at(r, "document")
  /\ IF documentOf(content, ValueOf(manifest), resolutions[r].slug).threw
     THEN throw(r)
     ELSE goto(r, "getNavigation")
  /\ UNCHANGED <<content, manifest, navigation, call, stores>>

\* getNavigation: if (navigation) return navigation
NavigationCheck(r) ==
  /\ at(r, "getNavigation")
  /\ IF IsDefined(navigation)
     THEN return(r, ValueOf(navigation))
     ELSE goto(r, "buildNavigation")
  /\ UNCHANGED <<content, manifest, navigation, call, stores>>

\* getNavigation: navigation = []
NavigationInit(r) ==
  /\ at(r, "buildNavigation")
  /\ navigation' = Some(<<>>)
  /\ stores' = [stores EXCEPT !.navigation = @ + 1]
  /\ resolutions' = [resolutions EXCEPT ![r].pc = "push", ![r].next = 1]
  /\ running' = r
  /\ UNCHANGED <<content, manifest, call>>

\* getNavigation: navigation.push(getNavItem(route)), one turn of the loop
NavigationPush(r) ==
  /\ at(r, "push")
  /\ resolutions[r].next <= Len(ValueOf(manifest).routes)
  /\ IF getNavItem(content, ValueOf(manifest).routes[resolutions[r].next], Undefined).threw
     THEN throw(r) /\ UNCHANGED navigation
     ELSE /\ navigation' =
               Some(Append(ValueOf(navigation),
                           Returned(getNavItem(content,
                                               ValueOf(manifest).routes[resolutions[r].next],
                                               Undefined))))
          /\ resolutions' = [resolutions EXCEPT ![r].next = @ + 1]
          /\ running' = r
  /\ UNCHANGED <<content, manifest, call, stores>>

\* getNavigation: return navigation, after the loop
NavigationReturn(r) ==
  /\ at(r, "push")
  /\ resolutions[r].next > Len(ValueOf(manifest).routes)
  /\ return(r, ValueOf(navigation))
  /\ UNCHANGED <<content, manifest, navigation, call, stores>>

\* A process with MaxResolutions calls of getStaticProps pending on a
\* content folder, both module variables unset.
InitPending ==
  /\ content \in Contents
  /\ manifest = Undefined
  /\ navigation = Undefined
  /\ call = NoCall
  /\ resolutions \in [Resolutions -> {Resolution(s) : s \in SlugParams(content)}]
  /\ running = NoOne
  /\ stores = NoStores

NextPending ==
  \E r \in Resolutions :
    \/ ManifestCheck(r)
    \/ ManifestLoad(r)
    \/ ReadDocument(r)
    \/ NavigationCheck(r)
    \/ NavigationInit(r)
    \/ NavigationPush(r)
    \/ NavigationReturn(r)

SpecPending == InitPending /\ [][NextPending]_vars

(***************************************************************************)
(* Vocabulary of the properties.                                           *)
(***************************************************************************)
\* The manifest the process has loaded.
Loaded == ValueOf(manifest)

\* Two distinct routes (at any depth) normalize to the same URL path.
HasCollision(routes) ==
  \E i, j \in 1..Len(AllRoutes(routes)) :
    /\ i < j
    /\ transformFilePathToUrlPath(AllRoutes(routes)[i].path)
         = transformFilePathToUrlPath(AllRoutes(routes)[j].path)

\* A collision between two routes that name different documents: one of
\* the two cannot keep its key.
HasOverwrite(routes) ==
  \E i, j \in 1..Len(AllRoutes(routes)) :
    /\ i < j
    /\ AllRoutes(routes)[i].path # AllRoutes(routes)[j].path
    /\ transformFilePathToUrlPath(AllRoutes(routes)[i].path)
         = transformFilePathToUrlPath(AllRoutes(routes)[j].path)

\* Every item of a navigation tree, pre-order.
RECURSIVE AllNavItems(_)
AllNavItems(items) ==
  IF items = <<>> THEN <<>>
  ELSE <<items[1]>>
         \o (IF IsDefined(items[1].children)
             THEN AllNavItems(ValueOf(items[1].children))
             ELSE <<>>)
         \o AllNavItems(Tail(items))

\* A navigation tree has the shape of a route list, and each item carries
\* the normalized path of its own route.
RECURSIVE MirrorsRoutes(_, _)
MirrorsRoutes(routes, items) ==
  /\ Len(items) = Len(routes)
  /\ \A i \in 1..Len(routes) :
       /\ items[i].path = transformFilePathToUrlPath(routes[i].path)
       /\ IsDefined(items[i].children) = IsDefined(routes[i].children)
       /\ IsDefined(routes[i].children) =>
            MirrorsRoutes(ValueOf(routes[i].children), ValueOf(items[i].children))

\* Every routed document can be read and parsed.
AllReadable(routes) ==
  \A p \in RoutedPaths(routes) : content.docs[p] \in {"title", "notitle"}

ReturnedFrom(fn) == call.fn = fn /\ ~call.threw
Page == ValueOf(call.ret).props

\* The depth of a route list.
RECURSIVE Depth(_)
Depth(routes) ==
  IF routes = <<>> THEN 0
  ELSE LET d(r) == IF IsDefined(r.children) THEN 1 + Depth(ValueOf(r.children)) ELSE 1
           ds == {d(routes[i]) : i \in 1..Len(routes)}
       IN  CHOOSE x \in ds : \A y \in ds : y <= x

(***************************************************************************)
(* C1.  A manifest in which two distinct routes normalize to the same URL  *)
(* path makes building the route index fail: getStaticPaths, which builds  *)
(* it with mapRoutes, throws instead of returning paths.  (Checked on the  *)
(* collisions between routes that name different documents, where the      *)
(* later route takes the key from the earlier one.)                        *)
(***************************************************************************)
C1_CollisionFails ==
  (call.fn = "getStaticPaths" /\ IsDefined(manifest) /\ HasOverwrite(Loaded.routes))
    => call.threw

(***************************************************************************)
(* C2.  For a manifest with no collision, mapRoutes yields exactly one key *)
(* per route of the tree, at every depth; the key of a route is its        *)
(* normalized path and maps to that route's source path; getStaticPaths    *)
(* returns one path per route.                                             *)
(***************************************************************************)
C2_IndexExact ==
  (IsDefined(manifest) /\ ~HasCollision(Loaded.routes)) =>
    /\ Len(mapRoutes(Loaded)) = Len(AllRoutes(Loaded.routes))
    /\ \A i \in 1..Len(AllRoutes(Loaded.routes)) :
         ObjGet(mapRoutes(Loaded),
                transformFilePathToUrlPath(AllRoutes(Loaded.routes)[i].path))
           = Some(AllRoutes(Loaded.routes)[i].path)
    /\ call.fn = "getStaticPaths" =>
         /\ ~call.threw
         /\ Len(ValueOf(call.ret).paths) = Len(AllRoutes(Loaded.routes))

\* getStaticPaths has returned for a collision-free manifest of three
\* routes on two levels.
C2_Witness ==
  /\ ReturnedFrom("getStaticPaths")
  /\ ~HasCollision(Loaded.routes)
  /\ Len(AllRoutes(Loaded.routes)) >= 3
  /\ Depth(Loaded.routes) >= 2

(***************************************************************************)
(* C3.  The normalizer removes `index` only as the final segment: a path   *)
(* equal to `index` becomes empty, a path ending in `/index` loses that    *)
(* suffix, and any other path is left as it is by this step.               *)
(***************************************************************************)
StrSlashIndex == StrSlash \o StrIndex
removeIndexSegment(path) ==
  IF path = StrIndex THEN StrEmpty
  ELSE IF EndsWith(path, StrSlashIndex)
  THEN SubSeq(path, 1, Len(path) - Len(StrSlashIndex))
  ELSE path

C3_OnlyFinalIndexSegment ==
  ReturnedFrom("transformFilePathToUrlPath") =>
    ValueOf(call.ret)
      = removeTrailingSlashIfAny(
          removeIndexSegment(
            removeRelativePath(
              removeMkdExtension(ValueOf(call.arg)))))

AllTitled(items) ==
  \A i \in 1..Len(AllNavItems(items)) : IsDefined(AllNavItems(items)[i].title)

C5_NoUntitledNavItem ==
  /\ IsDefined(navigation) => AllTitled(ValueOf(navigation))
  /\ ReturnedFrom("getStaticProps") => AllTitled(Page.navigation)

(***************************************************************************)
(* C6.  When every routed document is readable, the navigation built has   *)
(* the shape of the route tree (same lists at every node, same order),     *)
(* every item's path is the normalized source path of its own route at     *)
(* every depth, and so every item's path is a key of the route index.      *)
(***************************************************************************)
C6_NavigationMirrorsRoutes ==
  (IsDefined(manifest) /\ IsDefined(navigation) /\ AllReadable(Loaded.routes)) =>
    /\ MirrorsRoutes(Loaded.routes, ValueOf(navigation))
    /\ \A i \in 1..Len(AllNavItems(ValueOf(navigation))) :
         HasKey(mapRoutes(Loaded), AllNavItems(ValueOf(navigation))[i].path)
    /\ ReturnedFrom("getStaticProps") => Page.navigation = ValueOf(navigation)

\* A page has been returned for a manifest with two children under a route
\* whose own URL path is not empty.
C6_Witness ==
  /\ ReturnedFrom("getStaticProps")
  /\ AllReadable(Loaded.routes)
  /\ \E i \in 1..Len(Loaded.routes) :
       /\ IsDefined(Loaded.routes[i].children)
       /\ Len(ValueOf(Loaded.routes[i].children)) >= 2
       /\ transformFilePathToUrlPath(Loaded.routes[i].path) # StrEmpty

(***************************************************************************)
(* C7.  Memoization is per manifest: whatever calls came before, a call    *)
(* getNavigation(m) that returns yields the tree derived from m.           *)
(***************************************************************************)
C7_TreeOfTheManifestGiven ==
  ReturnedFrom("getNavigation") =>
    /\ ~pushNavItems(content, ValueOf(call.arg).routes, Undefined, <<>>).threw
    /\ ValueOf(call.ret)
         = pushNavItems(content, ValueOf(call.arg).routes, Undefined, <<>>).items

(***************************************************************************)
(* C8.  Every segment list getStaticPaths emits has only non-empty         *)
(* segments, except the root path emitted as [""]; and each list, joined   *)
(* by "/", is a key of the route index.                                    *)
(***************************************************************************)
C8_SegmentsNonEmpty ==
  ReturnedFrom("getStaticPaths") =>
    \A i \in 1..Len(ValueOf(call.ret).paths) :
      LET slug == ValueOf(call.ret).paths[i].params.slug
      IN  /\ slug = <<StrEmpty>> \/ \A k \in 1..Len(slug) : slug[k] # StrEmpty
          /\ HasKey(mapRoutes(Loaded), Join(slug, StrSlash))

(***************************************************************************)
(* C9.  getStaticProps returns no page for a segment list whose joined     *)
(* path is not a key of the route index, and a page it returns has all of  *)
(* content, attributes, navigation and version.                            *)
(***************************************************************************)
C9_PageOrFailure ==
  /\ (call.fn = "getStaticProps" /\ IsDefined(manifest)
        /\ ~HasKey(mapRoutes(Loaded), Join(slugOrDefault(call.arg), StrSlash)))
       => call.threw
  /\ ReturnedFrom("getStaticProps") => IsDefined(Page.version)

(***************************************************************************)
(* C10.  Every call that returns a navigation tree returns one top-level   *)
(* item per route of the manifest, also after an earlier call failed       *)
(* part-way.                                                               *)
(***************************************************************************)
C10_NoPartialTree ==
  ReturnedFrom("getStaticProps") => Len(Page.navigation) = Len(Loaded.routes)


(***************************************************************************)
(* C11.  When several page resolutions are pending together on unset       *)
(* module variables, each of `manifest` and `navigation` is assigned at    *)
(* most once, and no resolution returns a navigation tree with fewer       *)
(* top-level items than the manifest has routes.                           *)
(***************************************************************************)
\* Each module variable is assigned at most once.
StoredAtMostOnce == stores.manifest <= 1 /\ stores.navigation <= 1

\* Every tree a pending call has returned is complete.
TreesComplete ==
  \A r \in DOMAIN resolutions :
    resolutions[r].pc = "returned" =>
      Len(ValueOf(resolutions[r].got)) = Len(Loaded.routes)

C11_SerializedPopulation == StoredAtMostOnce /\ TreesComplete

\* What does hold of the pending calls: the assignments are never repeated,
\* and as long as no call has thrown every tree returned is complete.
NoneThrew == \A r \in DOMAIN resolutions : resolutions[r].pc # "threw"
C11_CompleteUnlessThrown == StoredAtMostOnce /\ (NoneThrew => TreesComplete)

=============================================================================
